---- MODULE Spec2Model ----
(***************************************************************************)
(* A model of the MQTT adapter (src/python/handler.py, MQTTHandler) and of *)
(* the subscription service built on it (src/python/service.py,            *)
(* MQTTService).                                                            *)
(*                                                                         *)
(* Bytes are the integers 0..255 and a payload is a sequence of bytes.  A  *)
(* Python str is represented by its UTF-8 bytes, so str.encode() and a     *)
(* successful bytes.decode("utf-8") keep the sequence and only change the  *)
(* type; the decode fails exactly on the sequences that are not UTF-8.     *)
(***************************************************************************)
EXTENDS Integers, Sequences, FiniteSets, TLC

VARIABLES
    \* ---- MQTTHandler (handler.py)
    ENCODING,            \* class constant ENCODING: "msgpack" or "json"
    handler,             \* "none" | "live" | "failed" | "deleted": the object
    client,              \* self.client: "unset" until __init__ assigned it
    sess,                \* the client's session: connecting | connected |
                         \*   refused | closed
    \* ---- MQTTService (service.py)
    topic,               \* self.topic: "none" or a topic name
    processor_callback,  \* self.processor_callback: "none" or "cb"
    _subscribed,
    _running,
    message_count,
    pc,                  \* where run() is: none | idle | running | stopped
    \* ---- observations of what the handlers did
    pendingAck,          \* subscribe requests of this session not yet acked
    subsSinceDisc,       \* subscribe calls since the last on_disconnect
    reconnects,          \* calls of client.reconnect()
    discRunning,         \* on_disconnect events received with _running true
    okCallbacks,         \* callbacks returned normally since run() started
    last,                \* the last call: what it was and how it ended
    \* ---- the codec and the publish operations, called on their own
    payload,             \* bytes handed to decode_message
    decoded,             \* what decode_message did with them
    call                 \* the last publish_result / publish_error call

svars == <<handler, client, sess, topic, processor_callback, _subscribed,
           _running, message_count, pc, pendingAck, subsSinceDisc,
           reconnects, discRunning, okCallbacks, last>>
cvars == <<payload, decoded>>
pvars == <<call>>
vars == <<ENCODING, svars, cvars, pvars>>

-----------------------------------------------------------------------------
(* Python values.  Each type has its own record shape.                     *)

PyNone == [t |-> "none"]
PyObject == [t |-> "object"]          \* a value no encoder accepts: set()
PyBool(b) == [t |-> "bool", b |-> b]
PyInt(i) == [t |-> "int", i |-> i]
PyFloat(k) == [t |-> "float", f |-> k]
PyStr(s) == [t |-> "str", s |-> s]
PyList(xs) == [t |-> "list", xs |-> xs]
PyTuple(xs) == [t |-> "tuple", tx |-> xs]
PyDict(kv) == [t |-> "dict", kv |-> kv]   \* <<key, value>> pairs, in order

\* time() values the model uses: each with its float repr (what json.dumps
\* writes) and its IEEE-754 big-endian bytes (what msgpack writes).
\* 1730613600.5 and 1730613601.25
Floats ==
    << [repr |-> <<49, 55, 51, 48, 54, 49, 51, 54, 48, 48, 46, 53>>,
        bits |-> <<65, 217, 201, 196, 88, 32, 0, 0>>],
       [repr |-> <<49, 55, 51, 48, 54, 49, 51, 54, 48, 49, 46, 50, 53>>,
        bits |-> <<65, 217, 201, 196, 88, 80, 0, 0>>] >>

\* The float with these bytes / this text; 0 stands for a float that is not
\* in the table (no payload of the model holds one).
FloatOfBits(b) ==
    IF \E k \in 1..Len(Floats) : Floats[k].bits = b
    THEN CHOOSE k \in 1..Len(Floats) : Floats[k].bits = b ELSE 0
FloatOfRepr(r) ==
    IF \E k \in 1..Len(Floats) : Floats[k].repr = r
    THEN CHOOSE k \in 1..Len(Floats) : Floats[k].repr = r ELSE 0

\* An exception-or-value result of a library call.
Raise(e) == [exc |-> e]
Value(v) == [exc |-> "none", val |-> v]

-----------------------------------------------------------------------------
(* bytes.decode("utf-8"): the well-formed UTF-8 byte sequences.            *)

IsCont(b) == b >= 128 /\ b <= 191

\* Whether p[i + k] is there and is a continuation byte.
Utf8Cont(p, i, k) == i + k <= Len(p) /\ IsCont(p[i + k])

\* Whether the byte after p[i] is there and lies in lo..hi.
Utf8Second(p, i, lo, hi) ==
    i + 1 <= Len(p) /\ p[i + 1] >= lo /\ p[i + 1] <= hi

\* The length of the well-formed sequence that starts at p[i]; 0 when none
\* does (overlong forms, surrogates and code points above U+10FFFF are not
\* well formed).
Utf8SeqLen(p, i) ==
    CASE p[i] <= 127 -> 1
      [] p[i] >= 194 /\ p[i] <= 223 -> IF Utf8Cont(p, i, 1) THEN 2 ELSE 0
      [] p[i] = 224 ->
           IF Utf8Second(p, i, 160, 191) /\ Utf8Cont(p, i, 2) THEN 3 ELSE 0
      [] (p[i] >= 225 /\ p[i] <= 236) \/ p[i] = 238 \/ p[i] = 239 ->
           IF Utf8Cont(p, i, 1) /\ Utf8Cont(p, i, 2) THEN 3 ELSE 0
      [] p[i] = 237 ->
           IF Utf8Second(p, i, 128, 159) /\ Utf8Cont(p, i, 2) THEN 3 ELSE 0
      [] p[i] = 240 ->
           IF Utf8Second(p, i, 144, 191) /\ Utf8Cont(p, i, 2)
              /\ Utf8Cont(p, i, 3)
           THEN 4 ELSE 0
      [] p[i] >= 241 /\ p[i] <= 243 ->
           IF Utf8Cont(p, i, 1) /\ Utf8Cont(p, i, 2) /\ Utf8Cont(p, i, 3)
           THEN 4 ELSE 0
      [] p[i] = 244 ->
           IF Utf8Second(p, i, 128, 143) /\ Utf8Cont(p, i, 2)
              /\ Utf8Cont(p, i, 3)
           THEN 4 ELSE 0
      [] OTHER -> 0

\* The bytes from p[i] on are well formed: every byte that is not a
\* continuation byte starts a well-formed sequence, and every continuation
\* byte belongs to the sequence started at most three bytes before it.
Utf8ValidFrom(p, i) ==
    \A n \in i..Len(p) :
        IF IsCont(p[n])
        THEN \E k \in 1..3 :
                 /\ n - k >= i
                 /\ ~IsCont(p[n - k])
                 /\ Utf8SeqLen(p, n - k) > k
        ELSE Utf8SeqLen(p, n) > 0

Utf8Valid(p) == Utf8ValidFrom(p, 1)

bytes_decode(p) ==
    IF Utf8Valid(p) THEN Value(p) ELSE Raise("UnicodeDecodeError")

-----------------------------------------------------------------------------
(* Python dict: a sequence of <<key, value>> pairs in insertion order.     *)

DictHas(kv, k) == \E n \in 1..Len(kv) : kv[n][1] = k

\* d[k] = v: a key already there keeps its place and takes the new value.
DictSet(kv, k, v) ==
    IF DictHas(kv, k)
    THEN [n \in 1..Len(kv) |-> IF kv[n][1] = k THEN <<k, v>> ELSE kv[n]]
    ELSE Append(kv, <<k, v>>)

DictGet(kv, k) == kv[CHOOSE n \in 1..Len(kv) : kv[n][1] = k][2]

DictKeys(kv) == {kv[n][1] : n \in 1..Len(kv)}

-----------------------------------------------------------------------------
(* msgpack.unpackb(payload, raw=False), for the formats nil, false, true,  *)
(* positive and negative fixint, uint8, uint16, int8, float64, fixstr,     *)
(* str8, fixarray and fixmap.  The first byte 0xc1 is never valid; the other formats      *)
(* (bin, ext, float32, the wider ints, strs, arrays and maps) are not      *)
(* modelled and no payload of the model starts a value with their bytes.   *)

MpFail == [ok |-> FALSE]
MpOk(v, n) == [ok |-> TRUE, val |-> v, next |-> n]

RECURSIVE MpParse(_, _), MpParseItems(_, _, _, _), MpParsePairs(_, _, _, _)

\* The value that starts at p[i] and the position after it.
MpParse(p, i) ==
    IF i > Len(p) THEN MpFail
    ELSE LET b == p[i]
             strAt(from, n) ==
                 IF from + n - 1 > Len(p) THEN MpFail
                 ELSE LET s == SubSeq(p, from, from + n - 1)
                      IN  IF Utf8Valid(s) THEN MpOk(PyStr(s), from + n)
                          ELSE MpFail
         IN  IF b <= 127 THEN MpOk(PyInt(b), i + 1)
             ELSE IF b <= 143 THEN MpParsePairs(p, i + 1, b - 128, <<>>)
             ELSE IF b <= 159 THEN MpParseItems(p, i + 1, b - 144, <<>>)
             ELSE IF b <= 191 THEN strAt(i + 1, b - 160)
             ELSE IF b = 192 THEN MpOk(PyNone, i + 1)
             ELSE IF b = 194 THEN MpOk(PyBool(FALSE), i + 1)
             ELSE IF b = 195 THEN MpOk(PyBool(TRUE), i + 1)
             ELSE IF b = 203
                  THEN IF i + 8 > Len(p) THEN MpFail
                       ELSE MpOk(PyFloat(FloatOfBits(SubSeq(p, i + 1, i + 8))),
                                 i + 9)
             ELSE IF b = 204
                  THEN IF i + 1 > Len(p) THEN MpFail
                       ELSE MpOk(PyInt(p[i + 1]), i + 2)
             ELSE IF b = 205
                  THEN IF i + 2 > Len(p) THEN MpFail
                       ELSE MpOk(PyInt(256 * p[i + 1] + p[i + 2]), i + 3)
             ELSE IF b = 208
                  THEN IF i + 1 > Len(p) THEN MpFail
                       ELSE MpOk(PyInt(IF p[i + 1] >= 128 THEN p[i + 1] - 256
                                       ELSE p[i + 1]), i + 2)
             ELSE IF b = 217
                  THEN IF i + 1 > Len(p) THEN MpFail
                       ELSE strAt(i + 2, p[i + 1])
             ELSE IF b >= 224 THEN MpOk(PyInt(b - 256), i + 1)
             ELSE MpFail

MpParseItem(p, n, acc, r) ==
    IF r.ok THEN MpParseItems(p, r.next, n - 1, Append(acc, r.val))
    ELSE MpFail

\* n array elements from p[i] on, after the elements acc.
MpParseItems(p, i, n, acc) ==
    IF n = 0 THEN MpOk(PyList(acc), i) ELSE MpParseItem(p, n, acc, MpParse(p, i))

MpParsePairValue(p, n, acc, k, v) ==
    IF v.ok THEN MpParsePairs(p, v.next, n - 1, DictSet(acc, k, v.val))
    ELSE MpFail

MpParsePairKey(p, n, acc, k) ==
    IF ~k.ok \/ k.val.t # "str" THEN MpFail
    ELSE MpParsePairValue(p, n, acc, k.val, MpParse(p, k.next))

\* n map entries from p[i] on, after the entries acc.  strict_map_key (the
\* default) refuses a key that is not a str.
MpParsePairs(p, i, n, acc) ==
    IF n = 0 THEN MpOk(PyDict(acc), i)
    ELSE MpParsePairKey(p, n, acc, MpParse(p, i))

\* One value and nothing after it; anything else raises (ExtraData,
\* ValueError, UnicodeDecodeError, ...: all of them Exception).
msgpack_unpackb(p) ==
    LET r == MpParse(p, 1)
    IN  IF r.ok /\ r.next = Len(p) + 1 THEN Value(r.val)
        ELSE Raise("UnpackException")

-----------------------------------------------------------------------------
(* json.loads(text), on the UTF-8 bytes of the text: null, true, false,    *)
(* numbers, strings, arrays and objects.  Not modelled: the \u escape and  *)
(* the literals NaN, Infinity and -Infinity (no payload of the model holds *)
(* a backslash or the letters N and I).                                    *)

IsWs(b) == b \in {32, 9, 10, 13}
IsDigit(b) == b >= 48 /\ b <= 57

RECURSIVE SkipWs(_, _)
SkipWs(s, i) == IF i <= Len(s) /\ IsWs(s[i]) THEN SkipWs(s, i + 1) ELSE i

RECURSIVE DigitsEnd(_, _)
DigitsEnd(s, i) ==
    IF i <= Len(s) /\ IsDigit(s[i]) THEN DigitsEnd(s, i + 1) ELSE i

RECURSIVE DigitsValue(_, _, _)
DigitsValue(s, i, j) ==
    IF j < i THEN 0 ELSE 10 * DigitsValue(s, i, j - 1) + (s[j] - 48)

StartsWith(s, i, w) ==
    i + Len(w) - 1 <= Len(s) /\ SubSeq(s, i, i + Len(w) - 1) = w

At(s, i, b) == i <= Len(s) /\ s[i] = b

JsFail == [ok |-> FALSE]
JsOk(v, n) == [ok |-> TRUE, val |-> v, next |-> n]

\* NUMBER_RE: (-?(?:0|[1-9]\d*))(\.\d+)?([eE][-+]?\d+)? matched at s[i].
\* j: after the sign; intEnd, fracEnd, expEnd: after the integer part, the
\* fraction, the exponent.  Without fraction and exponent it is an int.
JsNumberEnd(s, i, j, intEnd, expEnd) ==
    IF expEnd = intEnd
    THEN JsOk(PyInt(IF j = i THEN DigitsValue(s, j, intEnd - 1)
                    ELSE 0 - DigitsValue(s, j, intEnd - 1)), intEnd)
    ELSE JsOk(PyFloat(FloatOfRepr(SubSeq(s, i, expEnd - 1))), expEnd)

JsNumberExp(s, i, j, intEnd, fracEnd, k) ==
    JsNumberEnd(s, i, j, intEnd,
                IF (At(s, fracEnd, 101) \/ At(s, fracEnd, 69))
                   /\ k <= Len(s) /\ IsDigit(s[k])
                THEN DigitsEnd(s, k) ELSE fracEnd)

JsNumberFrac(s, i, j, intEnd, fracEnd) ==
    JsNumberExp(s, i, j, intEnd, fracEnd,
                IF At(s, fracEnd + 1, 43) \/ At(s, fracEnd + 1, 45)
                THEN fracEnd + 2 ELSE fracEnd + 1)

JsNumberInt(s, i, j, intEnd) ==
    IF intEnd = j THEN JsFail
    ELSE JsNumberFrac(s, i, j, intEnd,
                      IF At(s, intEnd, 46) /\ intEnd + 1 <= Len(s)
                         /\ IsDigit(s[intEnd + 1])
                      THEN DigitsEnd(s, intEnd + 1) ELSE intEnd)

JsNumberSign(s, i, j) ==
    JsNumberInt(s, i, j, IF At(s, j, 48) THEN j + 1 ELSE DigitsEnd(s, j))

JsNumber(s, i) == JsNumberSign(s, i, IF At(s, i, 45) THEN i + 1 ELSE i)

\* What a backslash followed by c stands for; 0 when it is no escape.
JsEscape(c) ==
    IF c = 34 \/ c = 92 \/ c = 47 THEN c
    ELSE IF c = 98 THEN 8
    ELSE IF c = 102 THEN 12
    ELSE IF c = 110 THEN 10
    ELSE IF c = 114 THEN 13
    ELSE IF c = 116 THEN 9
    ELSE 0

\* The rest of a string whose opening quote was read, from s[i] on.
RECURSIVE JsString(_, _, _)
JsString(s, i, acc) ==
    IF i > Len(s) THEN JsFail
    ELSE IF s[i] = 34 THEN JsOk(PyStr(acc), i + 1)
    ELSE IF s[i] < 32 THEN JsFail
    ELSE IF s[i] = 92
         THEN IF i + 1 > Len(s) \/ JsEscape(s[i + 1]) = 0 THEN JsFail
              ELSE JsString(s, i + 2, Append(acc, JsEscape(s[i + 1])))
    ELSE JsString(s, i + 1, Append(acc, s[i]))

RECURSIVE JsValue(_, _), JsArray(_, _, _), JsObject(_, _, _)

\* scan_once: the value that starts at s[i], no whitespace skipped.
JsValue(s, i) ==
    IF i > Len(s) THEN JsFail
    ELSE IF s[i] = 34 THEN JsString(s, i + 1, <<>>)
    ELSE IF s[i] = 123
         THEN IF At(s, SkipWs(s, i + 1), 125)
              THEN JsOk(PyDict(<<>>), SkipWs(s, i + 1) + 1)
              ELSE JsObject(s, SkipWs(s, i + 1), <<>>)
    ELSE IF s[i] = 91
         THEN IF At(s, SkipWs(s, i + 1), 93)
              THEN JsOk(PyList(<<>>), SkipWs(s, i + 1) + 1)
              ELSE JsArray(s, SkipWs(s, i + 1), <<>>)
    ELSE IF StartsWith(s, i, <<110, 117, 108, 108>>) THEN JsOk(PyNone, i + 4)
    ELSE IF StartsWith(s, i, <<116, 114, 117, 101>>)
         THEN JsOk(PyBool(TRUE), i + 4)
    ELSE IF StartsWith(s, i, <<102, 97, 108, 115, 101>>)
         THEN JsOk(PyBool(FALSE), i + 5)
    ELSE JsNumber(s, i)

\* After an element of an array: s[j] closes the array or separates the
\* next element.
JsArrayNext(s, j, acc, x) ==
    IF At(s, j, 93) THEN JsOk(PyList(Append(acc, x)), j + 1)
    ELSE IF At(s, j, 44) THEN JsArray(s, SkipWs(s, j + 1), Append(acc, x))
    ELSE JsFail

JsArrayElement(s, acc, v) ==
    IF v.ok THEN JsArrayNext(s, SkipWs(s, v.next), acc, v.val) ELSE JsFail

\* The elements of an array from s[i] on, after the elements acc.
JsArray(s, i, acc) == JsArrayElement(s, acc, JsValue(s, i))

\* After a member of an object: s[j] closes the object or separates the
\* next member.
JsObjectNext(s, j, acc, kv) ==
    IF At(s, j, 125) THEN JsOk(PyDict(DictSet(acc, kv[1], kv[2])), j + 1)
    ELSE IF At(s, j, 44)
         THEN JsObject(s, SkipWs(s, j + 1), DictSet(acc, kv[1], kv[2]))
    ELSE JsFail

JsObjectMember(s, acc, k, v) ==
    IF v.ok THEN JsObjectNext(s, SkipWs(s, v.next), acc, <<k, v.val>>)
    ELSE JsFail

\* After a member's key: s[c] is the colon, the value follows.
JsObjectValue(s, c, acc, k) ==
    IF At(s, c, 58)
    THEN JsObjectMember(s, acc, k, JsValue(s, SkipWs(s, c + 1)))
    ELSE JsFail

JsObjectKey(s, acc, k) ==
    IF k.ok THEN JsObjectValue(s, SkipWs(s, k.next), acc, k.val) ELSE JsFail

\* The members of an object from s[i] on, after the members acc.
JsObject(s, i, acc) ==
    IF At(s, i, 34) THEN JsObjectKey(s, acc, JsString(s, i + 1, <<>>))
    ELSE JsFail

\* One value, whitespace around it allowed, and nothing else.
json_loads(s) ==
    LET r == JsValue(s, SkipWs(s, 1))
    IN  IF r.ok /\ SkipWs(s, r.next) = Len(s) + 1 THEN Value(r.val)
        ELSE Raise("JSONDecodeError")

-----------------------------------------------------------------------------
(* msgpack.packb(data, use_bin_type=True), for ints in -128..65535, strs   *)
(* shorter than 256 bytes and lists, tuples and dicts shorter than 16.     *)

RECURSIVE MpPack(_), MpPackItems(_, _), MpPackPairs(_, _)

MpPack(v) ==
    IF v.t = "none" THEN Value(<<192>>)
    ELSE IF v.t = "bool" THEN Value(IF v.b THEN <<195>> ELSE <<194>>)
    ELSE IF v.t = "int"
         THEN IF v.i >= 0 /\ v.i <= 127 THEN Value(<<v.i>>)
              ELSE IF v.i < 0 /\ v.i >= -32 THEN Value(<<256 + v.i>>)
              ELSE IF v.i < 0 THEN Value(<<208, 256 + v.i>>)
              ELSE IF v.i <= 255 THEN Value(<<204, v.i>>)
              ELSE Value(<<205, v.i \div 256, v.i % 256>>)
    ELSE IF v.t = "float" THEN Value(<<203>> \o Floats[v.f].bits)
    ELSE IF v.t = "str"
         THEN IF Len(v.s) < 32 THEN Value(<<160 + Len(v.s)>> \o v.s)
              ELSE Value(<<217, Len(v.s)>> \o v.s)
    ELSE IF v.t = "list" THEN MpPackItems(v.xs, <<144 + Len(v.xs)>>)
    ELSE IF v.t = "tuple" THEN MpPackItems(v.tx, <<144 + Len(v.tx)>>)
    ELSE IF v.t = "dict" THEN MpPackPairs(v.kv, <<128 + Len(v.kv)>>)
    ELSE Raise("TypeError")

MpPackItems(xs, acc) ==
    IF xs = <<>> THEN Value(acc)
    ELSE LET r == MpPack(Head(xs))
         IN  IF r.exc = "none" THEN MpPackItems(Tail(xs), acc \o r.val)
             ELSE r

MpPackPairs(kv, acc) ==
    IF kv = <<>> THEN Value(acc)
    ELSE LET k == MpPack(Head(kv)[1])
             v == MpPack(Head(kv)[2])
         IN  IF k.exc # "none" THEN k
             ELSE IF v.exc # "none" THEN v
             ELSE MpPackPairs(Tail(kv), acc \o k.val \o v.val)

msgpack_packb(v) == MpPack(v)

-----------------------------------------------------------------------------
(* json.dumps(data), for strs of printable ASCII.                          *)

RECURSIVE Digits(_)
Digits(n) ==
    IF n < 10 THEN <<48 + n>> ELSE Digits(n \div 10) \o <<48 + (n % 10)>>

IntText(i) == IF i < 0 THEN <<45>> \o Digits(0 - i) ELSE Digits(i)

\* The text of a str between its quotes: a quote and a backslash escaped.
RECURSIVE JsEscaped(_)
JsEscaped(s) ==
    IF s = <<>> THEN <<>>
    ELSE (IF Head(s) = 34 \/ Head(s) = 92 THEN <<92, Head(s)>> ELSE <<Head(s)>>)
         \o JsEscaped(Tail(s))

JsQuoted(s) == <<34>> \o JsEscaped(s) \o <<34>>

\* A dict key as json.dumps writes it: a str as it is, an int, float, bool
\* or None as the str of its JSON text, anything else a TypeError.
JsKey(k) ==
    IF k.t = "str" THEN Value(JsQuoted(k.s))
    ELSE IF k.t = "int" THEN Value(JsQuoted(IntText(k.i)))
    ELSE IF k.t = "float" THEN Value(JsQuoted(Floats[k.f].repr))
    ELSE IF k.t = "bool"
         THEN Value(JsQuoted(IF k.b THEN <<116, 114, 117, 101>>
                             ELSE <<102, 97, 108, 115, 101>>))
    ELSE IF k.t = "none" THEN Value(JsQuoted(<<110, 117, 108, 108>>))
    ELSE Raise("TypeError")

RECURSIVE JsDump(_), JsDumpItems(_, _), JsDumpPairs(_, _)

JsDump(v) ==
    IF v.t = "none" THEN Value(<<110, 117, 108, 108>>)
    ELSE IF v.t = "bool"
         THEN Value(IF v.b THEN <<116, 114, 117, 101>>
                    ELSE <<102, 97, 108, 115, 101>>)
    ELSE IF v.t = "int" THEN Value(IntText(v.i))
    ELSE IF v.t = "float" THEN Value(Floats[v.f].repr)
    ELSE IF v.t = "str" THEN Value(JsQuoted(v.s))
    ELSE IF v.t = "list"
         THEN IF v.xs = <<>> THEN Value(<<91, 93>>)
              ELSE JsDumpItems(v.xs, <<91>>)
    ELSE IF v.t = "tuple"
         THEN IF v.tx = <<>> THEN Value(<<91, 93>>)
              ELSE JsDumpItems(v.tx, <<91>>)
    ELSE IF v.t = "dict"
         THEN IF v.kv = <<>> THEN Value(<<123, 125>>)
              ELSE JsDumpPairs(v.kv, <<123>>)
    ELSE Raise("TypeError")

\* The items left of a non-empty array, ", " between them, then "]".
JsDumpItems(xs, acc) ==
    LET r == JsDump(Head(xs))
    IN  IF r.exc # "none" THEN r
        ELSE IF Len(xs) = 1 THEN Value(acc \o r.val \o <<93>>)
        ELSE JsDumpItems(Tail(xs), acc \o r.val \o <<44, 32>>)

\* The members left of a non-empty object, as key ": " value.
JsDumpPairs(kv, acc) ==
    LET k == JsKey(Head(kv)[1])
        v == JsDump(Head(kv)[2])
    IN  IF k.exc # "none" THEN k
        ELSE IF v.exc # "none" THEN v
        ELSE IF Len(kv) = 1
             THEN Value(acc \o k.val \o <<58, 32>> \o v.val \o <<125>>)
        ELSE JsDumpPairs(Tail(kv), acc \o k.val \o <<58, 32>> \o v.val
                                       \o <<44, 32>>)

json_dumps(v) == JsDump(v)

-----------------------------------------------------------------------------
(* MQTTHandler.decode_message and MQTTHandler.encode_message.              *)

\* What a call returned or raised: the caller sees either.
Returned(v) == [raised |-> FALSE, val |-> v]
Raised(e) == [raised |-> TRUE, exc |-> e]

\* Variant of DecodeOuterExcept without the outer handler: C4 fails on it.
DecodeOuterExceptNarrow(e) == Raised(e)
\* handler.py 82-84: except Exception -> log, return None.
DecodeOuterExcept(e) == Returned(PyNone)

\* handler.py 79-81: except json.JSONDecodeError -> the text itself; any
\* other exception of line 78 goes on to the outer handler.
DecodeJsonExcept(e, text) ==
    IF e = "JSONDecodeError" THEN Returned(PyStr(text))
    ELSE DecodeOuterExcept(e)

\* Variant of decode_message that tries JSON before msgpack: C15 fails on
\* it.
decode_message_json_first(p) ==
    IF Utf8Valid(p) /\ json_loads(p).exc = "none"
    THEN Returned(json_loads(p).val)
    ELSE IF msgpack_unpackb(p).exc = "none"
         THEN Returned(msgpack_unpackb(p).val)
    ELSE IF Utf8Valid(p) THEN Returned(PyStr(p))
    ELSE Returned(PyNone)
\* handler.py 69-84.
decode_message(p) ==
    LET m == msgpack_unpackb(p)
    IN  IF m.exc = "none" THEN Returned(m.val)
        ELSE LET text == bytes_decode(p)
             IN  IF text.exc # "none" THEN DecodeOuterExcept(text.exc)
                 ELSE LET j == json_loads(text.val)
                      IN  IF j.exc = "none" THEN Returned(j.val)
                          ELSE DecodeJsonExcept(j.exc, text.val)

\* handler.py 92-94: except Exception -> log, return None.
EncodeExcept(e) == PyNone

\* The bytes, as PyBytes, or None.
PyBytes(b) == [t |-> "bytes", bytes |-> b]

\* Variant of encode_message that ignores ENCODING: C7 fails on it.
encode_message_json(enc, data) ==
    IF json_dumps(data).exc = "none" THEN PyBytes(json_dumps(data).val)
    ELSE EncodeExcept(json_dumps(data).exc)
\* handler.py 86-94.
encode_message(enc, data) ==
    LET r == IF enc = "msgpack" THEN msgpack_packb(data) ELSE json_dumps(data)
    IN  IF r.exc = "none" THEN PyBytes(r.val) ELSE EncodeExcept(r.exc)

-----------------------------------------------------------------------------
(* MQTTHandler.publish_result and MQTTHandler.publish_error.               *)

\* handler.py 27-28: the topic templates results/{slug} and errors/{slug}.
RESULT_TOPIC == <<114, 101, 115, 117, 108, 116, 115, 47, 123, 115, 108, 117, 103, 125>>
ERROR_TOPIC == <<101, 114, 114, 111, 114, 115, 47, 123, 115, 108, 117, 103, 125>>

\* template.format(slug=slug): each {slug} replaced by the slug.
RECURSIVE str_format(_, _)
str_format(template, slug) ==
    IF template = <<>> THEN <<>>
    ELSE IF StartsWith(template, 1, <<123, 115, 108, 117, 103, 125>>)
         THEN slug \o str_format(SubSeq(template, 7, Len(template)), slug)
    ELSE <<Head(template)>> \o str_format(Tail(template), slug)

\* "if payload:": bytes that are not empty; None is not.
Truthy(v) == v.t = "bytes" /\ v.bytes # <<>>

\* str(e) of the ValueError of handler.py 144, and of an exception of the
\* client's publish.
EncodeErrorText == 
    <<70, 97, 105, 108, 101, 100, 32, 116, 111, 32, 101, 110, 99, 111, 100, 101, 32, 114, 101, 115, 117, 108, 116, 32, 112, 97, 121, 108, 111, 97, 100>>
PublishErrorText == <<112, 117, 98, 108, 105, 115, 104, 32, 102, 97, 105, 108, 101, 100>>

\* A call of client.publish and whether it returned (or raised).
Attempt(tpc, pl, ok) == [topic |-> tpc, payload |-> pl, ok |-> ok]

\* Variant of PublishErrorExcept that lets the exception out: C19 fails on
\* it.
PublishErrorExceptRaise(pubs) ==
    [raised |-> TRUE, ret |-> "none", pubs |-> pubs]
\* handler.py 162-163: except Exception -> log; the call returns None.
PublishErrorExcept(pubs) == [raised |-> FALSE, ret |-> "none", pubs |-> pubs]

\* handler.py 151-163.  now: what time() answers; pubOk: whether
\* client.publish returns.
publish_error(slug, error_type, details, now, pubOk) ==
    LET error_data ==
            PyDict(<< <<PyStr(<<116, 105, 109, 101, 115, 116, 97, 109, 112>>), PyFloat(now)>>,
                      <<PyStr(<<116, 121, 112, 101>>), error_type>>,
                      <<PyStr(<<100, 101, 116, 97, 105, 108, 115>>), details>> >>)
        pl == encode_message(ENCODING, error_data)
        tried == <<Attempt(str_format(ERROR_TOPIC, slug), pl.bytes, pubOk)>>
    IN  IF Truthy(pl)
        THEN IF pubOk THEN [raised |-> FALSE, ret |-> "info", pubs |-> tried]
             ELSE PublishErrorExcept(tried)
        ELSE [raised |-> FALSE, ret |-> "none", pubs |-> <<>>]

\* The details publish_result reports: {"error": str(e), "slug": slug}.
ResultErrorDetails(slug, e) ==
    PyDict(<< <<PyStr(<<101, 114, 114, 111, 114>>), PyStr(e)>>, <<PyStr(<<115, 108, 117, 103>>), PyStr(slug)>> >>)

\* Variant of PublishResultExcept that lets the exception out: C6 fails
\* on it.
PublishResultExceptRaise(slug, e, pubs, now, pubOk) ==
    [raised |-> TRUE, ret |-> "none", pubs |-> pubs, errs |-> <<>>]
\* handler.py 145-149: except Exception -> log, return publish_error(...).
\* pubs: the calls of client.publish made before the exception.
PublishResultExcept(slug, e, pubs, now, pubOk) ==
    [raised |->
         publish_error(slug, PyStr(
             <<112, 117, 98, 108, 105, 115, 104, 95, 101, 114, 114, 111, 114>>), ResultErrorDetails(slug, e), now,
                       pubOk).raised,
     ret |->
         publish_error(slug, PyStr(
             <<112, 117, 98, 108, 105, 115, 104, 95, 101, 114, 114, 111, 114>>), ResultErrorDetails(slug, e), now,
                       pubOk).ret,
     pubs |->
         pubs \o publish_error(slug, PyStr(
             <<112, 117, 98, 108, 105, 115, 104, 95, 101, 114, 114, 111, 114>>), ResultErrorDetails(slug, e),
                               now, pubOk).pubs,
     errs |-> <<[slug |-> slug, type |-> PyStr(
             <<112, 117, 98, 108, 105, 115, 104, 95, 101, 114, 114, 111, 114>>),
                 details |-> ResultErrorDetails(slug, e)]>>]

\* handler.py 135-149.  pubOk1, pubOk2: whether the first and the second
\* call of client.publish return.
publish_result(slug, result, now, pubOk1, pubOk2) ==
    LET pl == encode_message(ENCODING, result)
        tried == <<Attempt(str_format(RESULT_TOPIC, slug), pl.bytes, pubOk1)>>
    IN  IF Truthy(pl)
        THEN IF pubOk1
             THEN [raised |-> FALSE, ret |-> "info", pubs |-> tried,
                   errs |-> <<>>]
             ELSE PublishResultExcept(slug, PublishErrorText, tried, now,
                                      pubOk2)
        ELSE PublishResultExcept(slug, EncodeErrorText, <<>>, now, pubOk2)

-----------------------------------------------------------------------------
(* Bounds of the model.                                                    *)

MaxMessages == 2        \* messages counted in one run()
MaxDisconnects == 2     \* on_disconnect events received while running
MaxLen == 4             \* bytes of a payload handed to decode_message alone
MaxPending == 2         \* subscribe requests issued between two disconnects

\* Broker result codes of a CONNACK: success, and two refusals.
ResultCodes == {0, 3, 5}

\* Payloads the broker delivers to on_message: msgpack of {"n": 5}, JSON
\* null, JSON "5", the text nu, and bytes that are neither msgpack nor UTF-8.
MessagePayloads ==
    { <<129, 161, 110, 5>>, <<110, 117, 108, 108>>, <<34, 53, 34>>,
      <<110, 117>>, <<192, 192>> }

-----------------------------------------------------------------------------
(* MQTTService: the callbacks.  Each operator is the body of one handler,  *)
(* given what the client hands it and what the calls it makes answer; it   *)
(* yields the new fields and what the handler did.                         *)

\* Variant of on_connect that subscribes whatever the state: C10 fails on
\* it.
on_connect_always(rc, subscribed, subResult) ==
    IF rc = 0
    THEN [raised |-> FALSE, subscribed |-> TRUE,
          subs |-> <<[topic |-> topic, qos |-> 1]>>]
    ELSE [raised |-> FALSE, subscribed |-> FALSE, subs |-> <<>>]
\* service.py 25-42.  subscribe() answers (result, mid); neither is read.
on_connect(rc, subscribed, subResult) ==
    IF rc = 0
    THEN IF ~subscribed /\ topic # "none"
         THEN [raised |-> FALSE, subscribed |-> TRUE,
               subs |-> <<[topic |-> topic, qos |-> 1]>>]
         ELSE [raised |-> FALSE, subscribed |-> subscribed, subs |-> <<>>]
    ELSE [raised |-> FALSE, subscribed |-> FALSE, subs |-> <<>>]

\* service.py 44-46.
on_subscribe == [raised |-> FALSE, subscribed |-> TRUE]

\* Variant of on_disconnect that retries a failed reconnect: C2 fails on
\* it.
on_disconnect_retry(running, reconnOk) ==
    [raised |-> FALSE, subscribed |-> FALSE,
     reconn |-> IF running THEN (IF reconnOk THEN 1 ELSE 2) ELSE 0,
     reconnected |-> running /\ reconnOk]
\* Variant of on_disconnect that reconnects whatever _running is: C11
\* fails on it.
on_disconnect_unconditional(running, reconnOk) ==
    [raised |-> FALSE, subscribed |-> FALSE, reconn |-> 1,
     reconnected |-> reconnOk]
\* service.py 48-55.  reconnOk: whether client.reconnect() returns (or
\* raises).  reconn counts the calls of client.reconnect().
on_disconnect(running, reconnOk) ==
    [raised |-> FALSE, subscribed |-> FALSE,
     reconn |-> IF running THEN 1 ELSE 0,
     reconnected |-> running /\ reconnOk]

\* Variant of OnMessageExcept that lets the exception out: C1 fails on it.
OnMessageExceptReraise(count, cb) ==
    [raised |-> TRUE, count |-> count, cb |-> cb, dropped |-> FALSE]
\* Variant of OnMessageExcept that counts the failed message: C3 fails on
\* it.
OnMessageExceptCounted(count, cb) ==
    [raised |-> FALSE, count |-> count + 1, cb |-> cb, dropped |-> FALSE]
\* service.py 71-72: except Exception -> log.  cb: what became of the
\* processor callback (notcalled | ok | raised).
OnMessageExcept(count, cb) ==
    [raised |-> FALSE, count |-> count, cb |-> cb, dropped |-> FALSE]

\* service.py 57-72.  cbRaises: whether the processor callback, if called,
\* raises an Exception.
on_message(count, p, cbRaises) ==
    LET data == decode_message(p)
    IN  IF data.raised THEN OnMessageExcept(count, "notcalled")
        ELSE IF data.val = PyNone
             THEN [raised |-> FALSE, count |-> count, cb |-> "notcalled",
                   dropped |-> TRUE]
        ELSE IF processor_callback # "none"
             THEN IF cbRaises THEN OnMessageExcept(count, "raised")
                  ELSE [raised |-> FALSE, count |-> count + 1, cb |-> "ok",
                        dropped |-> FALSE]
        ELSE [raised |-> FALSE, count |-> count, cb |-> "notcalled",
              dropped |-> FALSE]

-----------------------------------------------------------------------------
(* The handler object and the service around the client's loop.            *)

SessionOpen == sess \in {"connecting", "connected", "refused"}

\* Variant of SetupExcept that connects once more instead of raising: C16
\* fails on it.
SetupExceptRetry(connects) ==
    [raised |-> FALSE, client |-> "handle", connects |-> connects + 1]
\* handler.py 63-65: except Exception -> log, raise.  connects: the calls
\* of client.connect() made.
SetupExcept(connects) ==
    [raised |-> TRUE, client |-> "unset", connects |-> connects]

\* handler.py 33-67: one call of client.connect(); the client is returned
\* (and assigned to self.client, line 31) only when it did not raise.
_setup_mqtt_client(connectOk) ==
    IF connectOk THEN [raised |-> FALSE, client |-> "handle", connects |-> 1]
    ELSE SetupExcept(1)

\* handler.py 30-67: __init__ -> _setup_mqtt_client.  connectOk: whether
\* client.connect() returns; when it raises, the exception is raised again
\* (65) and self.client is never assigned.
HandlerInit(connectOk) ==
    /\ handler = "none"
    /\ handler' = IF _setup_mqtt_client(connectOk).raised THEN "failed"
                  ELSE "live"
    /\ client' = _setup_mqtt_client(connectOk).client
    /\ sess' = IF _setup_mqtt_client(connectOk).raised THEN sess
               ELSE "connecting"
    /\ last' = [op |-> "handler_init",
                raised |-> _setup_mqtt_client(connectOk).raised,
                connects |-> _setup_mqtt_client(connectOk).connects]
    /\ UNCHANGED <<ENCODING, topic, processor_callback, _subscribed, _running,
                   message_count, pc, pendingAck, subsSinceDisc, reconnects,
                   discRunning, okCallbacks, cvars, pvars>>

\* service.py 8-23: MQTTService.__init__.
ServiceInit ==
    /\ handler = "live"
    /\ pc = "none"
    /\ pc' = "idle"
    /\ _subscribed' = FALSE
    /\ _running' = TRUE
    /\ message_count' = 0
    /\ last' = [op |-> "service_init", raised |-> FALSE]
    /\ UNCHANGED <<ENCODING, handler, client, sess, topic, processor_callback,
                   pendingAck, subsSinceDisc, reconnects, discRunning,
                   okCallbacks, cvars, pvars>>

\* service.py 74-79: run() up to the call of loop_forever.
RunStart ==
    /\ handler = "live"
    /\ pc \in {"idle", "stopped"}
    /\ pc' = "running"
    /\ message_count' = 0
    /\ _running' = TRUE
    /\ okCallbacks' = 0
    /\ last' = [op |-> "run_start", raised |-> FALSE]
    /\ UNCHANGED <<ENCODING, handler, client, sess, topic, processor_callback,
                   _subscribed, pendingAck, subsSinceDisc, reconnects,
                   discRunning, cvars, pvars>>

\* The loop delivers a CONNACK: on_connect(rc).  A refused session is
\* closed by the client, which then delivers on_disconnect.
OnConnect(rc, subResult) ==
    /\ handler = "live" /\ pc = "running" /\ sess = "connecting"
    /\ LET r == on_connect(rc, _subscribed, subResult)
       IN  /\ _subscribed' = r.subscribed
           /\ subsSinceDisc' = subsSinceDisc + Len(r.subs)
           /\ pendingAck' = IF r.subs # <<>> /\ subResult = "ok"
                            THEN pendingAck + Len(r.subs) ELSE pendingAck
           /\ last' = [op |-> "on_connect", raised |-> r.raised, rc |-> rc,
                       sub0 |-> _subscribed, subs |-> r.subs,
                       subResult |-> subResult]
    /\ sess' = IF rc = 0 THEN "connected" ELSE "refused"
    /\ UNCHANGED <<ENCODING, handler, client, topic, processor_callback,
                   _running, message_count, pc, reconnects, discRunning,
                   okCallbacks, cvars, pvars>>

\* The loop delivers a SUBACK of this session: on_subscribe.
OnSubscribe ==
    /\ handler = "live" /\ pc = "running" /\ sess = "connected"
    /\ pendingAck > 0
    /\ pendingAck' = pendingAck - 1
    /\ _subscribed' = on_subscribe.subscribed
    /\ last' = [op |-> "on_subscribe", raised |-> on_subscribe.raised]
    /\ UNCHANGED <<ENCODING, handler, client, sess, topic, processor_callback,
                   _running, message_count, pc, subsSinceDisc, reconnects,
                   discRunning, okCallbacks, cvars, pvars>>

\* The loop finds the session lost or refused: on_disconnect.
OnDisconnect(reconnOk) ==
    /\ handler = "live" /\ pc = "running" /\ SessionOpen
    /\ discRunning < MaxDisconnects
    /\ LET r == on_disconnect(_running, reconnOk)
       IN  /\ _subscribed' = r.subscribed
           /\ reconnects' = reconnects + r.reconn
           /\ sess' = IF r.reconnected THEN "connecting" ELSE "closed"
           /\ last' = [op |-> "on_disconnect", raised |-> r.raised,
                       running0 |-> _running, reconn |-> r.reconn,
                       reconnOk |-> reconnOk]
    /\ discRunning' = IF _running THEN discRunning + 1 ELSE discRunning
    /\ pendingAck' = 0
    /\ subsSinceDisc' = 0
    /\ UNCHANGED <<ENCODING, handler, client, topic, processor_callback,
                   _running, message_count, pc, okCallbacks, cvars, pvars>>

\* handler.py 108-110: loop_forever connects again by itself after a
\* session was lost and not restored.
LoopReconnect ==
    /\ handler = "live" /\ pc = "running" /\ sess = "closed"
    /\ sess' = "connecting"
    /\ UNCHANGED <<ENCODING, handler, client, topic, processor_callback,
                   _subscribed, _running, message_count, pc, pendingAck,
                   subsSinceDisc, reconnects, discRunning, okCallbacks, last,
                   cvars, pvars>>

\* handler.py 116-118: is_connected.
is_connected == sess = "connected"

\* handler.py 112-114: disconnect -> self.client.disconnect().  The client's
\* disconnect() answers a result code, also with no session open; without
\* the attribute self.client the call raises AttributeError.
disconnect ==
    IF client = "unset" THEN [raised |-> TRUE, exc |-> "AttributeError"]
    ELSE [raised |-> FALSE, exc |-> "none"]

\* handler.py 165-167: __del__ -> self.disconnect().
__del__ == disconnect

\* What client.disconnect() does to the service: with a session open the
\* client sends DISCONNECT, calls the registered on_disconnect and closes
\* the session.  called: whether on_disconnect was called.
ClientDisconnect(reconnOk) ==
    LET called == SessionOpen /\ pc # "none"
        r == on_disconnect(_running, reconnOk)
    IN  /\ sess' = IF SessionOpen THEN "closed" ELSE sess
        /\ pendingAck' = IF SessionOpen THEN 0 ELSE pendingAck
        /\ _subscribed' = IF called THEN r.subscribed ELSE _subscribed
        /\ reconnects' = IF called THEN reconnects + r.reconn ELSE reconnects
        /\ discRunning' = IF called /\ _running THEN discRunning + 1
                          ELSE discRunning
        /\ subsSinceDisc' = IF called THEN 0 ELSE subsSinceDisc

\* Variant of RunFinally that never disconnects: C12 fails on it.
RunFinallyNoDisconnect ==
    /\ pc' = "stopped"
    /\ _running' = FALSE
    /\ _subscribed' = FALSE
    /\ UNCHANGED <<sess, pendingAck, subsSinceDisc, reconnects>>
\* service.py 80-92: what run() does once loop_forever is left, by
\* KeyboardInterrupt, by another exception or by returning: the except
\* clauses and the finally block.  disconnect() makes the client call
\* on_disconnect, which then finds _running false.
RunFinally ==
    /\ pc' = "stopped"
    /\ _running' = FALSE
    /\ IF is_connected
       THEN /\ sess' = "closed"
            /\ pendingAck' = 0
            /\ subsSinceDisc' = 0
            /\ _subscribed' = on_disconnect(FALSE, FALSE).subscribed
            /\ reconnects' = reconnects + on_disconnect(FALSE, FALSE).reconn
       ELSE /\ _subscribed' = FALSE
            /\ UNCHANGED <<sess, pendingAck, subsSinceDisc, reconnects>>

RunEnd(cause) ==
    /\ handler = "live" /\ pc = "running"
    /\ RunFinally
    /\ last' = [op |-> "run_end", raised |-> FALSE, cause |-> cause,
                connected0 |-> is_connected, disconnected |-> is_connected,
                reconn |-> on_disconnect(FALSE, FALSE).reconn,
                count |-> message_count]
    /\ UNCHANGED <<ENCODING, handler, client, topic, processor_callback,
                   message_count, discRunning, okCallbacks, cvars, pvars>>

\* The loop delivers a PUBLISH: on_message(msg).  An exception that left
\* on_message would leave loop_forever too and end run() (service.py 83).
OnMessage(p, cbRaises) ==
    /\ handler = "live" /\ pc = "running" /\ sess = "connected"
    /\ message_count < MaxMessages
    /\ LET r == on_message(message_count, p, cbRaises)
       IN  /\ message_count' = r.count
           /\ okCallbacks' = IF r.cb = "ok" THEN okCallbacks + 1
                             ELSE okCallbacks
           /\ last' = [op |-> "on_message", raised |-> r.raised,
                       running0 |-> _running, count0 |-> message_count,
                       cb |-> r.cb, dropped |-> r.dropped]
           /\ IF r.raised THEN RunFinally
              ELSE UNCHANGED <<pc, _running, _subscribed, sess, pendingAck,
                               subsSinceDisc, reconnects>>
    /\ UNCHANGED <<ENCODING, handler, client, topic, processor_callback,
                   discRunning, cvars, pvars>>

\* The application calls handler.disconnect() while run() is not running.
Disconnect(reconnOk) ==
    /\ handler = "live" /\ pc # "running"
    /\ (SessionOpen /\ pc # "none" /\ _running) => discRunning < MaxDisconnects
    /\ ClientDisconnect(reconnOk)
    /\ last' = [op |-> "disconnect", raised |-> disconnect.raised,
                session0 |-> sess]
    /\ UNCHANGED <<ENCODING, handler, client, topic, processor_callback,
                   _running, message_count, pc, okCallbacks, cvars, pvars>>

\* The handler object is collected: __del__.  An object whose __init__
\* raised is collected too.
Del(reconnOk) ==
    /\ handler \in {"live", "failed"} /\ pc # "running"
    /\ (SessionOpen /\ pc # "none" /\ _running) => discRunning < MaxDisconnects
    /\ handler' = "deleted"
    /\ last' = [op |-> "__del__", raised |-> __del__.raised,
                session0 |-> sess]
    /\ IF __del__.raised
       THEN UNCHANGED <<sess, pendingAck, _subscribed, reconnects,
                        discRunning, subsSinceDisc>>
       ELSE ClientDisconnect(reconnOk)
    /\ UNCHANGED <<ENCODING, client, topic, processor_callback, _running,
                   message_count, pc, okCallbacks, cvars, pvars>>

-----------------------------------------------------------------------------
(* The service specification: one handler, one service on it.              *)

Encodings == {"msgpack", "json"}

Init ==
    /\ ENCODING \in Encodings
    /\ handler = "none"
    /\ client = "unset"
    /\ sess = "closed"
    /\ topic \in {"none", "jobs"}
    /\ processor_callback \in {"none", "cb"}
    /\ _subscribed = FALSE
    /\ _running = FALSE
    /\ message_count = 0
    /\ pc = "none"
    /\ pendingAck = 0
    /\ subsSinceDisc = 0
    /\ reconnects = 0
    /\ discRunning = 0
    /\ okCallbacks = 0
    /\ last = [op |-> "none", raised |-> FALSE]
    /\ payload = <<>>
    /\ decoded = [done |-> FALSE]
    /\ call = [op |-> "none"]

Next ==
    \/ \E connectOk \in BOOLEAN : HandlerInit(connectOk)
    \/ ServiceInit
    \/ RunStart
    \/ \E rc \in ResultCodes, subResult \in {"ok", "rejected"} :
           OnConnect(rc, subResult)
    \/ OnSubscribe
    \/ \E reconnOk \in BOOLEAN : OnDisconnect(reconnOk)
    \/ LoopReconnect
    \/ \E p \in MessagePayloads, cbRaises \in BOOLEAN : OnMessage(p, cbRaises)
    \/ \E cause \in {"interrupt", "error", "return"} : RunEnd(cause)
    \/ \E reconnOk \in BOOLEAN : Disconnect(reconnOk)
    \/ \E reconnOk \in BOOLEAN : Del(reconnOk)

Spec == Init /\ [][Next]_vars

-----------------------------------------------------------------------------
(* Properties of the service.                                              *)

\* C1: on_message never lets an exception out, whatever the message and the
\* processor callback do (the callback raising, the payload not decodable),
\* and it leaves _running as it was: run() goes on.
C1_OnMessageNeverRaises ==
    last.op = "on_message" =>
        /\ ~last.raised
        /\ _running = last.running0
        /\ pc = "running"

\* C1's case: a callback that raised, and the service still running.
C1_Witness ==
    /\ last.op = "on_message"
    /\ last.cb = "raised"
    /\ _running
    /\ pc = "running"

\* C2: each on_disconnect received while _running makes exactly one call of
\* client.reconnect(), also when that call raises, and none is made
\* otherwise: the reconnect attempts are as many as those events.
C2_OneReconnectPerDisconnect ==
    /\ reconnects = discRunning
    /\ last.op = "on_disconnect" =>
           /\ ~last.raised
           /\ last.reconn = IF last.running0 THEN 1 ELSE 0

\* C2's case: a disconnect while running whose reconnect attempt failed.
C2_Witness ==
    /\ last.op = "on_disconnect"
    /\ last.running0
    /\ ~last.reconnOk
    /\ reconnects = 2

\* C3: message_count grows by one with each callback that was called and
\* returned, and stays for a callback that raised, a payload that decoded
\* to the failure signal and a service without callback; so it is the
\* number of callbacks completed since run() started.
C3_MessageCountIsOkCallbacks ==
    /\ message_count = okCallbacks
    /\ last.op = "on_message" =>
           message_count = last.count0 + (IF last.cb = "ok" THEN 1 ELSE 0)

\* C3's case: after a counted message, one whose callback raised.
C3_Witness ==
    /\ last.op = "on_message"
    /\ last.cb = "raised"
    /\ message_count = 1
    /\ okCallbacks = 1

\* C8 as claimed: disconnect() and __del__ never raise, called twice,
\* called with no session, called on a handler whose __init__ failed.
C8_DisconnectNeverRaises ==
    last.op \in {"disconnect", "__del__"} => ~last.raised

\* C10: on_connect(0) calls subscribe(topic, qos=1) exactly when the
\* service is not subscribed and has a topic, and is subscribed after the
\* call; without topic it subscribes nothing and stays unsubscribed;
\* on_connect(rc # 0) subscribes nothing and leaves the service
\* unsubscribed.  At most one subscribe is issued between two disconnects.
C10_SubscribeOnConnect ==
    /\ subsSinceDisc <= 1
    /\ last.op = "on_connect" =>
           /\ ~last.raised
           /\ last.rc = 0 =>
                  /\ (last.subs # <<>>) <=> (~last.sub0 /\ topic # "none")
                  /\ last.subs # <<>> =>
                         /\ last.subs = <<[topic |-> topic, qos |-> 1]>>
                         /\ _subscribed
                  /\ topic = "none" => ~_subscribed
           /\ last.rc # 0 => (last.subs = <<>> /\ ~_subscribed)

\* C10's case: a subscribe issued by an on_connect(0) that follows a
\* disconnect.
C10_Witness ==
    /\ last.op = "on_connect"
    /\ last.rc = 0
    /\ last.subs # <<>>
    /\ discRunning >= 1
    /\ subsSinceDisc = 1

\* C11: every on_disconnect leaves the service not subscribed, and calls
\* client.reconnect() exactly when _running is true; no step that ends with
\* _running false (run() stopped: its finally block, a later disconnect or
\* teardown) makes a reconnect attempt.
C11_ReconnectOnlyWhileRunning ==
    [][/\ reconnects' # reconnects => (_running' /\ reconnects' = reconnects + 1)
       /\ (\E reconnOk \in BOOLEAN : OnDisconnect(reconnOk)) =>
              /\ ~_subscribed'
              /\ reconnects' = reconnects + (IF _running THEN 1 ELSE 0)
       /\ ((\E cause \in {"interrupt", "error", "return"} : RunEnd(cause))
              /\ is_connected) =>
              (~_subscribed' /\ reconnects' = reconnects)
       /\ ((\E reconnOk \in BOOLEAN : Disconnect(reconnOk))
              /\ SessionOpen /\ pc # "none") =>
              /\ ~_subscribed'
              /\ reconnects' = reconnects + (IF _running THEN 1 ELSE 0)]_vars

\* C11's case: after run() stopped with a session still open, disconnect()
\* made the client call on_disconnect, and no reconnect was ever attempted.
C11_Witness ==
    /\ last.op = "disconnect"
    /\ pc = "stopped"
    /\ ~_running
    /\ last.session0 \in {"connecting", "connected", "refused"}
    /\ sess = "closed"
    /\ reconnects = 0

\* C12: when loop_forever is left (KeyboardInterrupt, another exception, or
\* a return), run() ends stopped: _running and _subscribed are false, the
\* session is closed by disconnect() exactly when is_connected() held and is
\* left as it was otherwise, and message_count keeps the count of processed
\* messages.
C12_RunEndsStopped ==
    [][(\E cause \in {"interrupt", "error", "return"} : RunEnd(cause)) =>
           /\ pc' = "stopped"
           /\ ~_running'
           /\ ~_subscribed'
           /\ is_connected => sess' = "closed"
           /\ ~is_connected => sess' = sess
           /\ last'.disconnected <=> is_connected
           /\ message_count' = message_count
           /\ message_count' = okCallbacks']_vars

\* C12's case: run() interrupted on a connected, subscribed session after a
\* processed message: disconnected, stopped, the count kept.
C12_Witness ==
    /\ last.op = "run_end"
    /\ last.cause = "interrupt"
    /\ last.connected0
    /\ sess = "closed"
    /\ pc = "stopped"
    /\ ~_running
    /\ ~_subscribed
    /\ message_count = 1
    /\ last.count = 1

\* C16: constructing the handler calls client.connect() exactly once; when
\* that call raises, the constructor raises too, without another attempt,
\* and no client handle and no session result; otherwise the handler is
\* live with its handle.
C16_ConnectOnceFailFast ==
    last.op = "handler_init" =>
        /\ last.connects = 1
        /\ last.raised =>
               (handler = "failed" /\ client = "unset" /\ sess = "closed")
        /\ ~last.raised =>
               (handler = "live" /\ client = "handle" /\ sess = "connecting")

\* C16's case: the broker was unreachable and the constructor raised.
C16_Witness ==
    /\ last.op = "handler_init"
    /\ last.raised
    /\ last.connects = 1
    /\ handler = "failed"
    /\ client = "unset"

\* C18 as claimed: an on_connect whose subscribe call answered with a
\* result other than success does not leave _subscribed true.
C18_SubscribedOnlyIfAccepted ==
    (last.op = "on_connect" /\ last.subs # <<>>
       /\ last.subResult = "rejected") =>
        ~_subscribed

-----------------------------------------------------------------------------
(* The codec specification: decode_message on every payload of at most     *)
(* MaxLen bytes over PayloadBytes.                                         *)

\* The quote, 5, l, n, u, and the msgpack bytes fixarray(1), fixstr(1), nil.
PayloadBytes == {34, 53, 108, 110, 117, 145, 161, 192}

Payloads == UNION {[1..n -> PayloadBytes] : n \in 0..MaxLen}

InitCodec ==
    /\ ENCODING \in Encodings
    /\ handler = "live"
    /\ client = "handle"
    /\ sess = "connecting"
    /\ topic = "none"
    /\ processor_callback = "none"
    /\ _subscribed = FALSE
    /\ _running = FALSE
    /\ message_count = 0
    /\ pc = "none"
    /\ pendingAck = 0
    /\ subsSinceDisc = 0
    /\ reconnects = 0
    /\ discRunning = 0
    /\ okCallbacks = 0
    /\ last = [op |-> "none", raised |-> FALSE]
    /\ payload \in Payloads
    /\ decoded = [done |-> FALSE]
    /\ call = [op |-> "none"]

\* handler.py 69-84: decode_message(payload) is called.
Decode ==
    /\ ~decoded.done
    /\ decoded' = [done |-> TRUE, r |-> decode_message(payload)]
    /\ UNCHANGED <<ENCODING, svars, payload, pvars>>

NextCodec == Decode

SpecCodec == InitCodec /\ [][NextCodec]_vars

\* C4: decode_message never raises; what it returns is the msgpack value
\* of the payload, or its JSON value, or its UTF-8 text, or None.
C4_DecodeNeverRaises ==
    decoded.done =>
        /\ ~decoded.r.raised
        /\ \/ /\ msgpack_unpackb(payload).exc = "none"
              /\ decoded.r.val = msgpack_unpackb(payload).val
           \/ /\ Utf8Valid(payload)
              /\ json_loads(payload).exc = "none"
              /\ decoded.r.val = json_loads(payload).val
           \/ /\ Utf8Valid(payload)
              /\ decoded.r.val = PyStr(payload)
           \/ decoded.r.val = PyNone

\* C4's case: a payload on which msgpack raises and the UTF-8 decoding
\* raises too, answered with None.
C4_Witness ==
    /\ decoded.done
    /\ msgpack_unpackb(payload).exc # "none"
    /\ ~Utf8Valid(payload)
    /\ ~decoded.r.raised
    /\ decoded.r.val = PyNone

\* C5 as claimed: None is returned only when the payload is not UTF-8; a
\* payload that is UTF-8, or msgpack or JSON of some value, is answered
\* with something else than None.
C5_NoneOnlyIfNotUtf8 ==
    (decoded.done /\ ~decoded.r.raised /\ decoded.r.val = PyNone) =>
        /\ ~Utf8Valid(payload)
        /\ msgpack_unpackb(payload).exc # "none"

-----------------------------------------------------------------------------
(* The publish specification: publish_result and publish_error on a live   *)
(* handler, for each encoding, slug, value, clock reading and outcome of   *)
(* the client's publish.                                                   *)

\* job-42 and a/b
Slugs == {<<106, 111, 98, 45, 52, 50>>, <<97, 47, 98>>}

\* {"n": 5}, 7, "", None, [1, set()], set(), {(1,): 2}: the last is packed
\* by msgpack and refused by json.dumps.
OutValues ==
    {PyDict(<< <<PyStr(<<110>>), PyInt(5)>> >>), PyInt(7), PyStr(<<>>), PyNone,
     PyList(<<PyInt(1), PyObject>>), PyObject,
     PyDict(<< <<PyTuple(<<PyInt(1)>>), PyInt(2)>> >>)}

\* task_error
ErrorTypes == {PyStr(
    <<116, 97, 115, 107, 95, 101, 114, 114, 111, 114>>)}

Clock == 1..Len(Floats)

InitPublish ==
    /\ ENCODING \in Encodings
    /\ handler = "live"
    /\ client = "handle"
    /\ sess = "connecting"
    /\ topic = "none"
    /\ processor_callback = "none"
    /\ _subscribed = FALSE
    /\ _running = FALSE
    /\ message_count = 0
    /\ pc = "none"
    /\ pendingAck = 0
    /\ subsSinceDisc = 0
    /\ reconnects = 0
    /\ discRunning = 0
    /\ okCallbacks = 0
    /\ last = [op |-> "none", raised |-> FALSE]
    /\ payload = <<>>
    /\ decoded = [done |-> FALSE]
    /\ call = [op |-> "none"]

\* handler.py 135-149: publish_result(slug, result) is called.  encoded
\* records whether encode_message gave a payload for the result.
PublishResult(slug, result, now, pubOk1, pubOk2) ==
    /\ call' = [op |-> "publish_result", slug |-> slug, arg |-> result,
                encoded |-> Truthy(encode_message(ENCODING, result)),
                r |-> publish_result(slug, result, now, pubOk1, pubOk2)]
    /\ UNCHANGED <<ENCODING, svars, cvars>>

\* handler.py 151-163: publish_error(slug, error_type, details) is called.
PublishError(slug, error_type, details, now, pubOk) ==
    /\ call' = [op |-> "publish_error", slug |-> slug, arg |-> details,
                type |-> error_type,
                r |-> publish_error(slug, error_type, details, now, pubOk)]
    /\ UNCHANGED <<ENCODING, svars, cvars>>

NextPublish ==
    \/ \E slug \in Slugs, result \in OutValues, now \in Clock,
          pubOk1 \in BOOLEAN, pubOk2 \in BOOLEAN :
           PublishResult(slug, result, now, pubOk1, pubOk2)
    \/ \E slug \in Slugs, error_type \in ErrorTypes, details \in OutValues,
          now \in Clock, pubOk \in BOOLEAN :
           PublishError(slug, error_type, details, now, pubOk)

SpecPublish == InitPublish /\ [][NextPublish]_vars

\* The diagnostic of a publish call, read back with decode_message.
Diagnostic(pub) == decode_message(pub.payload)

\* C6: when publish_result cannot encode the result, publish_error is
\* invoked once, with type "publish_error" and details whose slug is the
\* slug given; one message is handed to the client, on errors/<slug>, and
\* it is a mapping with exactly the keys timestamp (a float), type and
\* details, carrying that type and that slug.
C6_EncodeFailureReportsError ==
    (call.op = "publish_result" /\ ~call.encoded) =>
        /\ Len(call.r.errs) = 1
        /\ call.r.errs[1].slug = call.slug
        /\ call.r.errs[1].type = PyStr(
            <<112, 117, 98, 108, 105, 115, 104, 95, 101, 114, 114, 111, 114>>)
        /\ call.r.errs[1].details.t = "dict"
        /\ DictGet(call.r.errs[1].details.kv, PyStr(<<115, 108, 117, 103>>)) = PyStr(call.slug)
        /\ Len(call.r.pubs) = 1
        /\ call.r.pubs[1].topic = <<101, 114, 114, 111, 114, 115, 47>> \o call.slug
        /\ ~Diagnostic(call.r.pubs[1]).raised
        /\ Diagnostic(call.r.pubs[1]).val.t = "dict"
        /\ DictKeys(Diagnostic(call.r.pubs[1]).val.kv) =
               {PyStr(<<116, 105, 109, 101, 115, 116, 97, 109, 112>>), PyStr(<<116, 121, 112, 101>>), PyStr(<<100, 101, 116, 97, 105, 108, 115>>)}
        /\ DictGet(Diagnostic(call.r.pubs[1]).val.kv, PyStr(<<116, 105, 109, 101, 115, 116, 97, 109, 112>>)).t = "float"
        /\ DictGet(Diagnostic(call.r.pubs[1]).val.kv, PyStr(<<116, 121, 112, 101>>)) =
               PyStr(
            <<112, 117, 98, 108, 105, 115, 104, 95, 101, 114, 114, 111, 114>>)
        /\ DictGet(DictGet(Diagnostic(call.r.pubs[1]).val.kv, PyStr(<<100, 101, 116, 97, 105, 108, 115>>)).kv,
                   PyStr(<<115, 108, 117, 103>>)) = PyStr(call.slug)

\* C6's case: json.dumps refuses the result {(1,): 2} of job a/b and the
\* diagnostic goes out on errors/a/b.
C6_Witness ==
    /\ call.op = "publish_result"
    /\ ENCODING = "json"
    /\ call.arg = PyDict(<< <<PyTuple(<<PyInt(1)>>), PyInt(2)>> >>)
    /\ ~call.encoded
    /\ Len(call.r.pubs) = 1
    /\ call.r.pubs[1].ok
    /\ call.r.pubs[1].topic = <<101, 114, 114, 111, 114, 115, 47, 97, 47, 98>>

\* What encode_message hands over for a value in the configured encoding.
Encoded(v) ==
    IF ENCODING = "msgpack" THEN msgpack_packb(v).val ELSE json_dumps(v).val

\* C7 as claimed: publish_result with an encodable result sends exactly one
\* message, on results/<slug>, in the configured encoding, and nothing on
\* the error topic.
C7_OneResultNoError ==
    (call.op = "publish_result" /\ call.encoded) =>
        /\ Len(call.r.pubs) = 1
        /\ call.r.pubs[1].topic = <<114, 101, 115, 117, 108, 116, 115, 47>> \o call.slug
        /\ call.r.pubs[1].payload = Encoded(call.arg)
        /\ call.r.errs = <<>>

\* C7, amended: publish_result with an encodable result makes exactly one
\* publish call on results/<slug>, the first, with the result in the
\* configured encoding; when that call returns nothing else is sent and
\* publish_error is not invoked; when it raises, publish_error is invoked
\* and one diagnostic goes to errors/<slug>.
C7_OneResultErrorOnlyIfPublishRaises ==
    (call.op = "publish_result" /\ call.encoded) =>
        /\ Len(call.r.pubs) >= 1
        /\ call.r.pubs[1].topic = <<114, 101, 115, 117, 108, 116, 115, 47>> \o call.slug
        /\ call.r.pubs[1].payload = Encoded(call.arg)
        /\ \A n \in 2..Len(call.r.pubs) :
               call.r.pubs[n].topic = <<101, 114, 114, 111, 114, 115, 47>> \o call.slug
        /\ call.r.pubs[1].ok => (Len(call.r.pubs) = 1 /\ call.r.errs = <<>>)
        /\ ~call.r.pubs[1].ok => (Len(call.r.pubs) = 2 /\ Len(call.r.errs) = 1)

\* C7's case: {"n": 5} for job-42 goes out once, as msgpack, on
\* results/job-42.
C7_Witness ==
    /\ call.op = "publish_result"
    /\ ENCODING = "msgpack"
    /\ call.slug = <<106, 111, 98, 45, 52, 50>>
    /\ call.encoded
    /\ call.r.pubs = <<Attempt(
        <<114, 101, 115, 117, 108, 116, 115, 47, 106, 111, 98, 45, 52, 50>>,
                               <<129, 161, 110, 5>>, TRUE)>>
    /\ call.r.errs = <<>>

\* C9 as claimed: a call of publish_result or publish_error either hands a
\* message to the client or raises; it never returns normally with nothing
\* handed over.
C9_NeverSilentlyDropped ==
    call.op \in {"publish_result", "publish_error"} =>
        (Len(call.r.pubs) > 0 \/ call.r.raised)

\* The publish calls of the last operation made on a topic.
AttemptsOn(tpc) == {n \in 1..Len(call.r.pubs) : call.r.pubs[n].topic = tpc}

\* C19: publish_result never raises and makes at most one publish call on
\* results/<slug> and at most one on errors/<slug>, and no other; it calls
\* publish_error at most once, and a failure in publish_error (its encoding
\* or its publish) ends the call without a further attempt.
C19_PublishResultBounded ==
    call.op = "publish_result" =>
        /\ ~call.r.raised
        /\ Cardinality(AttemptsOn(<<114, 101, 115, 117, 108, 116, 115, 47>> \o call.slug)) <= 1
        /\ Cardinality(AttemptsOn(<<101, 114, 114, 111, 114, 115, 47>> \o call.slug)) <= 1
        /\ Len(call.r.pubs) =
               Cardinality(AttemptsOn(<<114, 101, 115, 117, 108, 116, 115, 47>> \o call.slug))
               + Cardinality(AttemptsOn(<<101, 114, 114, 111, 114, 115, 47>> \o call.slug))
        /\ Len(call.r.errs) <= 1
        /\ Len(call.r.pubs) <= 1 + Len(call.r.errs)

\* C19's case: the publish on the result topic raised and the fallback
\* publish on the error topic raised too; the call returned None.
C19_Witness ==
    /\ call.op = "publish_result"
    /\ call.encoded
    /\ Len(call.r.pubs) = 2
    /\ ~call.r.pubs[1].ok
    /\ ~call.r.pubs[2].ok
    /\ ~call.r.raised
    /\ call.r.ret = "none"

-----------------------------------------------------------------------------
(* The round-trip specification: encode_message on a value and             *)
(* decode_message on the bytes it gave, or on bytes that came from         *)
(* elsewhere, for each configured encoding.                                *)

\* None, the booleans, ints around the msgpack and JSON format borders, the
\* clock's floats, and the strs "", "a", "7" and the quote.
RoundAtoms ==
    {PyNone, PyBool(TRUE), PyBool(FALSE)}
    \cup {PyInt(i) : i \in {0, 7, 55, 127, 128, 255, 256, 300, -1, -32, -33,
                            -100}}
    \cup {PyFloat(k) : k \in 1..Len(Floats)}
    \cup {PyStr(s) : s \in {<<>>, <<97>>, <<55>>, <<34>>}}

\* The atoms, and lists, tuples and dicts of them: [], [a], [1, [a]], (1, 2),
\* {}, {"n": a}, {"a": [1, {"b": None}]}, {1: 2}; and set(), which no
\* encoder takes.
RoundValues ==
    RoundAtoms
    \cup {PyList(<<a>>) : a \in RoundAtoms}
    \cup {PyList(<<PyInt(1), PyList(<<a>>)>>) : a \in RoundAtoms}
    \cup {PyDict(<< <<PyStr(<<110>>), a>> >>) : a \in RoundAtoms}
    \cup {PyList(<<>>), PyDict(<<>>), PyTuple(<<PyInt(1), PyInt(2)>>),
          PyDict(<< <<PyStr(<<97>>),
                      PyList(<<PyInt(1),
                               PyDict(<< <<PyStr(<<98>>), PyNone>> >>)>>)>> >>),
          PyDict(<< <<PyInt(1), PyInt(2)>> >>),
          PyObject}

\* Bytes not made by encode_message: nothing, text that is no JSON, JSON
\* null, msgpack nil, the msgpack array [5], the JSON array [5], a lone
\* continuation byte, and msgpack's never-used byte before text.
RawPayloads ==
    {<<>>, <<110, 117>>, <<110, 117, 108, 108>>, <<192>>, <<145, 5>>,
     <<91, 53, 93>>, <<128>>, <<193, 110>>}

InitRound ==
    /\ ENCODING \in Encodings
    /\ handler = "live"
    /\ client = "handle"
    /\ sess = "connecting"
    /\ topic = "none"
    /\ processor_callback = "none"
    /\ _subscribed = FALSE
    /\ _running = FALSE
    /\ message_count = 0
    /\ pc = "none"
    /\ pendingAck = 0
    /\ subsSinceDisc = 0
    /\ reconnects = 0
    /\ discRunning = 0
    /\ okCallbacks = 0
    /\ last = [op |-> "none", raised |-> FALSE]
    /\ payload \in RawPayloads
    /\ decoded = [done |-> FALSE]
    /\ call = [op |-> "none"]

\* handler.py 86-94: encode_message(data) is called; the bytes it returns
\* become the payload.
EncodeMessage(data) ==
    /\ call.op = "none"
    /\ ~decoded.done
    /\ call' = [op |-> "encode_message", arg |-> data,
                out |-> encode_message(ENCODING, data)]
    /\ payload' = IF Truthy(encode_message(ENCODING, data))
                  THEN encode_message(ENCODING, data).bytes
                  ELSE payload
    /\ UNCHANGED <<ENCODING, svars, decoded>>

NextRound ==
    \/ \E data \in RoundValues : EncodeMessage(data)
    \/ Decode

SpecRound == InitRound /\ [][NextRound]_vars

\* The payload was made by encode_message and has been decoded.
RoundTripped ==
    call.op = "encode_message" /\ Truthy(call.out) /\ decoded.done

\* What JSON makes of a value: a tuple becomes a list, a dict key that is
\* an int becomes the str of its digits.
JsonKeyNormal(k) == IF k.t = "int" THEN PyStr(IntText(k.i)) ELSE k

RECURSIVE JsonNormal(_)
JsonNormal(v) ==
    IF v.t = "list" THEN PyList([n \in 1..Len(v.xs) |-> JsonNormal(v.xs[n])])
    ELSE IF v.t = "tuple"
         THEN PyList([n \in 1..Len(v.tx) |-> JsonNormal(v.tx[n])])
    ELSE IF v.t = "dict"
         THEN PyDict([n \in 1..Len(v.kv) |->
                          <<JsonKeyNormal(v.kv[n][1]),
                            JsonNormal(v.kv[n][2])>>])
    ELSE v

\* C13 as claimed: with the JSON encoding, decode_message gives back what
\* encode_message was given, up to what JSON makes of it (tuples as lists,
\* int keys as strs).
C13_JsonRoundTrip ==
    (ENCODING = "json" /\ RoundTripped) =>
        decoded.r = Returned(JsonNormal(call.arg))

\* C14 as claimed: with the msgpack encoding, decode_message gives back
\* exactly what encode_message was given.
C14_MsgpackRoundTrip ==
    (ENCODING = "msgpack" /\ RoundTripped) => decoded.r = Returned(call.arg)

\* The first of msgpack, JSON and UTF-8 text that takes the payload.
FirstThatSucceeds(p) ==
    IF msgpack_unpackb(p).exc = "none" THEN msgpack_unpackb(p).val
    ELSE IF Utf8Valid(p) /\ json_loads(p).exc = "none" THEN json_loads(p).val
    ELSE IF Utf8Valid(p) THEN PyStr(p)
    ELSE PyNone

-----------------------------------------------------------------------------
(* The any-order specification: a running service whose client delivers    *)
(* on_connect, on_subscribe and on_disconnect in any order.  An            *)
(* acknowledgement is delivered only for a subscribe request that was      *)
(* sent, but it may arrive after the session it was sent on is gone.       *)

InitAnyOrder ==
    /\ ENCODING \in Encodings
    /\ handler = "live"
    /\ client = "handle"
    /\ sess = "connecting"
    /\ topic \in {"none", "jobs"}
    /\ processor_callback = "none"
    /\ _subscribed = FALSE
    /\ _running = TRUE
    /\ message_count = 0
    /\ pc = "running"
    /\ pendingAck = 0
    /\ subsSinceDisc = 0
    /\ reconnects = 0
    /\ discRunning = 0
    /\ okCallbacks = 0
    /\ last = [op |-> "none", raised |-> FALSE]
    /\ payload = <<>>
    /\ decoded = [done |-> FALSE]
    /\ call = [op |-> "none"]

\* service.py 25-42: on_connect(rc), whenever the client calls it.
AnyOrderConnect(rc, subResult) ==
    /\ subsSinceDisc < MaxPending
    /\ _subscribed' = on_connect(rc, _subscribed, subResult).subscribed
    /\ subsSinceDisc' =
           subsSinceDisc + Len(on_connect(rc, _subscribed, subResult).subs)
    /\ pendingAck' =
           IF subResult = "ok"
           THEN pendingAck + Len(on_connect(rc, _subscribed, subResult).subs)
           ELSE pendingAck
    /\ last' = [op |-> "on_connect",
                raised |-> on_connect(rc, _subscribed, subResult).raised,
                rc |-> rc, sub0 |-> _subscribed,
                subs |-> on_connect(rc, _subscribed, subResult).subs,
                subResult |-> subResult]
    /\ sess' = IF rc = 0 THEN "connected" ELSE "refused"
    /\ UNCHANGED <<ENCODING, handler, client, topic, processor_callback,
                   _running, message_count, pc, reconnects, discRunning,
                   okCallbacks, cvars, pvars>>

\* service.py 44-46: on_subscribe, for a request sent on this session or on
\* an earlier one.
AnyOrderSubscribe ==
    /\ pendingAck > 0
    /\ pendingAck' = pendingAck - 1
    /\ _subscribed' = on_subscribe.subscribed
    /\ last' = [op |-> "on_subscribe", raised |-> on_subscribe.raised]
    /\ UNCHANGED <<ENCODING, handler, client, sess, topic, processor_callback,
                   _running, message_count, pc, subsSinceDisc, reconnects,
                   discRunning, okCallbacks, cvars, pvars>>

\* service.py 48-55: on_disconnect, whenever the client calls it; an
\* acknowledgement on its way stays on its way.
AnyOrderDisconnect(reconnOk) ==
    /\ discRunning < MaxDisconnects
    /\ _subscribed' = on_disconnect(_running, reconnOk).subscribed
    /\ reconnects' = reconnects + on_disconnect(_running, reconnOk).reconn
    /\ sess' = IF on_disconnect(_running, reconnOk).reconnected
               THEN "connecting" ELSE "closed"
    /\ last' = [op |-> "on_disconnect",
                raised |-> on_disconnect(_running, reconnOk).raised,
                running0 |-> _running,
                reconn |-> on_disconnect(_running, reconnOk).reconn,
                reconnOk |-> reconnOk]
    /\ discRunning' = IF _running THEN discRunning + 1 ELSE discRunning
    /\ subsSinceDisc' = 0
    /\ UNCHANGED <<ENCODING, handler, client, topic, processor_callback,
                   _running, message_count, pc, pendingAck, okCallbacks,
                   cvars, pvars>>

NextAnyOrder ==
    \/ \E rc \in ResultCodes, subResult \in {"ok", "rejected"} :
           AnyOrderConnect(rc, subResult)
    \/ AnyOrderSubscribe
    \/ \E reconnOk \in BOOLEAN : AnyOrderDisconnect(reconnOk)

SpecAnyOrder == InitAnyOrder /\ [][NextAnyOrder]_vars

\* C17 as claimed: in whatever order the callbacks come, a service that
\* holds _subscribed true has issued a subscribe request since the last
\* disconnect, and an on_connect(0) that is the first callback after a
\* disconnect, with a topic, issues one.
C17_SubscribedOnlyAfterSubscribe ==
    /\ _subscribed => subsSinceDisc >= 1
    /\ (last.op = "on_connect" /\ last.rc = 0 /\ topic # "none"
          /\ subsSinceDisc = Len(last.subs)) =>
           last.subs # <<>>

====
